---- MODULE Spec2Model ----
(***************************************************************************)
(* A model of app.py, the RGUKT scraping service: the URL normaliser, the  *)
(* table and staff extractors, the deep-bio fan-out and the TTL cache in   *)
(* front of the five read-path endpoints.                                  *)
(*                                                                         *)
(* Strings are sequences of atoms.  A URL or an href is a sequence of      *)
(* single characters; the fixed base address contributes the atoms         *)
(* "https:", "//" and "rguktong.ac.in".  A cache key, a page identifier or *)
(* a department code is a sequence of words from a prefix-free vocabulary, *)
(* so two such sequences are equal exactly when the Python strings are.    *)
(***************************************************************************)
EXTENDS Integers, Sequences, FiniteSets, TLC

VARIABLES
    now,      \* the reading of the cache's timer (time.monotonic), in seconds
    ticks,    \* how many times the clock has advanced (bounds the run)
    cache,    \* TTLCache: its links, least recently used first
    req,      \* the in-flight requests, one record per slot
    fin,      \* the request that finished last, with its response
    nreq,     \* how many requests have been started (bounds the run)
    stored,   \* history: per key, the value last stored and when
    arg,      \* the argument of the pure function that is called
    ret       \* its result

service == <<now, ticks, cache, req, fin, nreq, stored>>
vars == <<now, ticks, cache, req, fin, nreq, stored, arg, ret>>

(***************************************************************************)
(* Optional values (Python's None).                                        *)
(***************************************************************************)
None == [some |-> FALSE, v |-> <<>>]
Some(s) == [some |-> TRUE, v |-> s]

RECURSIVE SeqsUpTo(_, _)
SeqsUpTo(S, n) ==
    IF n = 0 THEN {<<>>}
    ELSE LET shorter == SeqsUpTo(S, n - 1)
         IN  shorter \cup {Append(s, x) : s \in {t \in shorter : Len(t) = n - 1}, x \in S}

(***************************************************************************)
(* get_abs_url                                                             *)
(***************************************************************************)
MaxPathLen == 5

\* The characters hrefs are drawn from: letters, the scheme delimiter, the
\* path delimiter, the fragment delimiter.
UrlChars == {"h", "t", "p", "x", ":", "/", "#"}
SchemeChars == {"h", "t", "p", "x"}

\* BASE_URL = "https://rguktong.ac.in/"
BaseScheme == <<"https:">>
BaseNetloc == <<"rguktong.ac.in">>
BasePath == <<"/">>
BASE_URL == BaseScheme \o <<"//">> \o BaseNetloc \o BasePath

\* The least index of s holding a character of D, or Len(s) + 1.
FirstOf(s, D) ==
    IF \E i \in 1..Len(s) : s[i] \in D
    THEN CHOOSE i \in 1..Len(s) : s[i] \in D /\ \A j \in 1..(i - 1) : s[j] \notin D
    ELSE Len(s) + 1

Drop(s, n) == SubSeq(s, n + 1, Len(s))
Take(s, n) == SubSeq(s, 1, n)

\* urllib.parse.urlsplit's scheme test: a colon that is not first, preceded
\* by scheme characters only.
HasScheme(s) ==
    LET i == FirstOf(s, {":"})
    IN  /\ i > 1
        /\ i <= Len(s)
        /\ \A j \in 1..(i - 1) : s[j] \in SchemeChars

\* path.startswith('http')
StartsWithHttp(s) == Len(s) >= 4 /\ Take(s, 4) = <<"h", "t", "t", "p">>

\* Runs of "/" collapsed to one: urljoin drops the empty middle segments of
\* a relative path.
RECURSIVE Collapse(_)
Collapse(s) ==
    IF Len(s) < 2 THEN s
    ELSE IF s[1] = "/" /\ s[2] = "/" THEN Collapse(Tail(s))
    ELSE <<s[1]>> \o Collapse(Tail(s))

\* urllib.parse.urljoin(BASE_URL, s) for a non-empty s over UrlChars.  No
\* s over UrlChars has the base's scheme, so a reference with a scheme comes
\* back as it is.
urljoin(s) ==
    IF s = <<>> THEN BASE_URL
    ELSE IF HasScheme(s) THEN s
    ELSE
      LET hasNetloc == Len(s) >= 2 /\ Take(s, 2) = <<"/", "/">>
          rest      == IF hasNetloc THEN Drop(s, 2) ELSE s
          cut       == IF hasNetloc THEN FirstOf(rest, {"/", "#"}) ELSE 1
          netloc    == Take(rest, cut - 1)
          tail      == Drop(rest, cut - 1)
          h         == FirstOf(tail, {"#"})
          path      == Take(tail, h - 1)
          frag      == Drop(tail, h)
          fragment  == IF frag = <<>> THEN <<>> ELSE <<"#">> \o frag
      IN  IF netloc # <<>> THEN BaseScheme \o <<"//">> \o netloc \o path \o fragment
          ELSE IF path = <<>> THEN BASE_URL \o fragment
          ELSE IF path[1] = "/" THEN BaseScheme \o <<"//">> \o BaseNetloc \o path \o fragment
          ELSE BASE_URL \o Collapse(path) \o fragment

\* get_abs_url(path), path an optional string.
get_abs_url(path) ==
    IF ~path.some \/ path.v = <<>> \/ path.v = <<"#">> THEN None
    ELSE IF ~StartsWithHttp(path.v) THEN Some(urljoin(path.v))
    ELSE Some(path.v)

NotCalled == [fn |-> "none", val |-> None]

IdleService ==
    /\ now = 0
    /\ ticks = 0
    /\ cache = <<>>
    /\ req = <<>>
    /\ fin = <<>>
    /\ nreq = 0
    /\ stored = {}

InitUrl ==
    /\ IdleService
    /\ arg \in {None} \cup {Some(s) : s \in SeqsUpTo(UrlChars, MaxPathLen)}
    /\ ret = NotCalled

CallGetAbsUrl ==
    /\ ret = NotCalled
    /\ ret' = [fn |-> "get_abs_url", val |-> get_abs_url(arg)]
    /\ UNCHANGED <<service, arg>>

NextUrl == CallGetAbsUrl

SpecUrl == InitUrl /\ [][NextUrl]_vars

\* An absolute URL: one with a scheme of its own, or one that urljoin gave
\* the base's scheme.
IsAbsolute(u) == HasScheme(u) \/ (Len(u) >= 1 /\ Take(u, 1) = BaseScheme)

\* C8: get_abs_url yields None for an empty, None or "#" input, the input
\* unchanged when it already has a scheme, and otherwise the input joined
\* against the base address; so an emitted URL is absolute or base-resolved,
\* and never empty.
C8_UrlContract ==
    ret.fn = "get_abs_url" =>
        /\ (~arg.some \/ arg.v = <<>> \/ arg.v = <<"#">>) => ret.val = None
        /\ (arg.some /\ arg.v # <<>> /\ arg.v # <<"#">>) =>
              /\ ret.val.some
              /\ ret.val.v # <<>>
              /\ HasScheme(arg.v) => ret.val.v = arg.v
              /\ ~HasScheme(arg.v) => ret.val.v = urljoin(arg.v)
              /\ IsAbsolute(ret.val.v)

(***************************************************************************)
(* Text.  A text node is a sequence of characters; get_text(strip=True)    *)
(* strips the white space at both ends.                                    *)
(***************************************************************************)
RECURSIVE LStrip(_)
LStrip(s) == IF s # <<>> /\ s[1] = " " THEN LStrip(Tail(s)) ELSE s

RECURSIVE RStrip(_)
RStrip(s) == IF s # <<>> /\ s[Len(s)] = " " THEN RStrip(Take(s, Len(s) - 1)) ELSE s

get_text(s) == RStrip(LStrip(s))

(***************************************************************************)
(* parse_generic_table.  A document is the sequence of its table elements, *)
(* a table the sequence of its tr elements in document order, a row the    *)
(* sequence of its td elements, a cell its text and the anchors in it.     *)
(***************************************************************************)
MaxRows == 3
MaxCells == 3

Anchor(text, href) == [text |-> text, href |-> href]

\* The cells a row is made of: plain text, and padded text around a link.
Cells ==
    { [text |-> <<"a">>, anchors |-> <<>>],
      [text |-> <<" ", "b", " ">>,
       anchors |-> <<Anchor(<<"b", " ">>, Some(<<"/", "x">>))>>] }

\* A row of n cells: every choice of the first two cells, and the plain cell
\* in the columns after them.
Padding(n) == [i \in 1..n |-> [text |-> <<"a">>, anchors |-> <<>>]]

RowsOf(n) ==
    IF n <= 2 THEN {r \in SeqsUpTo(Cells, 2) : Len(r) = n}
    ELSE {r \o Padding(n - 2) : r \in {q \in SeqsUpTo(Cells, 2) : Len(q) = 2}}

\* A later table of the document, which soup.find('table') never returns.
OtherTable == << <<[text |-> <<"a">>, anchors |-> <<>>]>>,
                 <<[text |-> <<"a">>, anchors |-> <<>>], [text |-> <<"a">>, anchors |-> <<>>]>> >>

\* row.find_all('a', href=True), mapped to {"text", "url"}
RECURSIVE RowLinks(_)
RowLinks(cells) ==
    IF cells = <<>> THEN <<>>
    ELSE LET as == cells[1].anchors
             here == [i \in 1..Len(as) |->
                         [text |-> get_text(as[i].text), url |-> get_abs_url(as[i].href)]]
         IN  here \o RowLinks(Tail(cells))

\* The body of the loop over table.find_all('tr')[1:].
RECURSIVE TableRows(_)
TableRows(rows) ==
    IF rows = <<>> THEN <<>>
    ELSE LET cols == rows[1]
         IN  (IF Len(cols) >= 2
              THEN <<[title |-> get_text(cols[1].text),
                      date  |-> get_text(cols[2].text),
                      links |-> RowLinks(cols)]>>
              ELSE <<>>) \o TableRows(Tail(rows))

\* find_all('tr') without the slice: the header row is kept.
DataRows_WithHeader(table) == table

\* find_all('tr')[1:]
DataRows(table) == SubSeq(table, 2, Len(table))

parse_generic_table(html) ==
    IF html = <<>> THEN <<>> ELSE TableRows(DataRows(html[1]))

InitTable ==
    /\ IdleService
    /\ LET rows   == UNION {RowsOf(n) : n \in 0..MaxCells}
           tables == SeqsUpTo(rows, MaxRows)
       IN  arg \in {<<>>} \cup {<<t>> : t \in tables} \cup {<<t, OtherTable>> : t \in tables}
    /\ ret = NotCalled

CallParseGenericTable ==
    /\ ret = NotCalled
    /\ ret' = [fn |-> "parse_generic_table", val |-> parse_generic_table(arg)]
    /\ UNCHANGED <<service, arg>>

NextTable == CallParseGenericTable

SpecTable == InitTable /\ [][NextTable]_vars

\* t is s without the white space at its ends.
IsStripOf(t, s) ==
    /\ t = <<>> \/ (t[1] # " " /\ t[Len(t)] # " ")
    /\ \E i \in 1..(Len(s) + 1) :
          /\ i + Len(t) - 1 <= Len(s)
          /\ t = SubSeq(s, i, i + Len(t) - 1)
          /\ \A j \in 1..Len(s) : (j < i \/ j > i + Len(t) - 1) => s[j] = " "

\* The indices of the rows after the first that have two cells or more.
WideRows(table) == {i \in 2..Len(table) : Len(table[i]) >= 2}

\* C9: the emitted TableRows are exactly the rows after the first row of the
\* first table that have at least two cells, in document order, each with the
\* first cell as title and the second as date; the first row is skipped
\* whatever it holds, and a narrower row is skipped without error.
C9_TableRows ==
    ret.fn = "parse_generic_table" /\ arg # <<>> =>
        LET table == arg[1]
            wide  == WideRows(table)
            out   == ret.val
        IN  /\ Len(out) = Cardinality(wide)
            /\ \A i \in wide :
                  LET k == Cardinality({j \in wide : j <= i})
                  IN  /\ IsStripOf(out[k].title, table[i][1].text)
                      /\ IsStripOf(out[k].date, table[i][2].text)

\* A header, one row of two cells and one row of one cell yield one TableRow.
C9_Witness ==
    /\ ret.fn = "parse_generic_table"
    /\ Len(arg) = 1
    /\ Len(arg[1]) = 3
    /\ Len(arg[1][1]) >= 2
    /\ Len(arg[1][2]) = 2
    /\ Len(arg[1][3]) = 1
    /\ Len(ret.val) = 1
    /\ ret.val[1].title = <<"b">>

(***************************************************************************)
(* The staff directory extractor of department_staff.  A department page   *)
(* is the sequence of its profile forms (the forms whose action holds      *)
(* 'profile_details.php') in document order.  A form has an email input or *)
(* not; the input has a value or not (None); the form has an ancestor card *)
(* div (class bg-white or rounded-lg) or not.  A card has a heading or     *)
(* not, and an img or not, whose src may be missing.                       *)
(***************************************************************************)
MaxForms == 3

Emails == {<<"a@rgukt">>, <<"b@rgukt">>}

NoImg == [present |-> FALSE, src |-> None]
Img(src) == [present |-> TRUE, src |-> src]

Card(name, img) == Some([name |-> name, img |-> img])

Cards ==
    { None,
      Card(Some(<<" ", "a", " ">>), NoImg),
      Card(None, Img(Some(<<"/", "x">>))),
      Card(Some(<<"b">>), Img(None)) }

Form(input, email, card) == [input |-> input, email |-> email, card |-> card]

Forms ==
    {Form(FALSE, None, Card(Some(<<"b">>), NoImg))}
    \cup {Form(TRUE, e, c) : e \in {None} \cup {Some(m) : m \in Emails}, c \in Cards}

\* StaffRecord: the dict appended to staff.
StaffRecord(email, card) ==
    [name  |-> IF card.name.some THEN get_text(card.name.v) ELSE <<"Unknown">>,
     email |-> email,
     photo |-> IF card.img.present THEN get_abs_url(card.img.src) ELSE None]

\* card.find('img')['src'] raises KeyError on an img without src.
CardRaises(card) == card.img.present /\ ~card.img.src.some

\* if email in seen: continue  /  seen.add(email)
Skipped(form, seen) == ~form.input \/ form.email \in seen
Seen(form, seen) == IF form.input THEN seen \cup {form.email} ELSE seen

\* The loop over the forms: the staff list so far and the emails seen; an
\* exception ends it.
RECURSIVE StaffLoop(_, _, _)
StaffLoop(forms, staff, seen) ==
    IF forms = <<>> THEN [raised |-> FALSE, staff |-> staff]
    ELSE LET form == forms[1]
         IN  IF Skipped(form, seen) THEN StaffLoop(Tail(forms), staff, seen)
             ELSE IF ~form.card.some THEN StaffLoop(Tail(forms), staff, Seen(form, seen))
             ELSE IF CardRaises(form.card.v) THEN [raised |-> TRUE, staff |-> <<>>]
             ELSE StaffLoop(Tail(forms),
                            Append(staff, StaffRecord(form.email, form.card.v)),
                            Seen(form, seen))

ExtractStaff(forms) == StaffLoop(forms, <<>>, {})

InitStaff ==
    /\ IdleService
    /\ arg \in SeqsUpTo(Forms, MaxForms)
    /\ ret = NotCalled

CallExtractStaff ==
    /\ ret = NotCalled
    /\ ret' = [fn |-> "department_staff", val |-> ExtractStaff(arg)]
    /\ UNCHANGED <<service, arg>>

NextStaff == CallExtractStaff

SpecStaff == InitStaff /\ [][NextStaff]_vars

\* The forms of a page that carry the email e, in document order.
FormsWith(forms, e) == {i \in 1..Len(forms) : forms[i].input /\ forms[i].email = e}

First(S) == CHOOSE i \in S : \A j \in S : i <= j

\* C3: of two or more profile forms carrying the same email exactly one
\* StaffRecord is emitted, built from the first of them in document order,
\* also when the first has no ancestor card and a later one has.
C3_FirstFormWins ==
    (ret.fn = "department_staff" /\ ~ret.val.raised) =>
        \A e \in {None} \cup {Some(m) : m \in Emails} :
            LET with == FormsWith(arg, e)
                recs == {k \in 1..Len(ret.val.staff) : ret.val.staff[k].email = e}
            IN  Cardinality(with) >= 2 =>
                  /\ Cardinality(recs) = 1
                  /\ arg[First(with)].card.some =>
                        \A k \in recs :
                            ret.val.staff[k] = StaffRecord(e, arg[First(with)].card.v)

(***************************************************************************)
(* Upstream pages.  One page carries what every extractor looks for: the   *)
(* marquee, the purecounter spans and the imgs (home_api), the content     *)
(* container and the info cards (institute_info, academic_records), the    *)
(* tables (news_tenders_careers) and the profile forms (department_staff). *)
(***************************************************************************)
Node(tag, cls, text, href) == [tag |-> tag, cls |-> cls, text |-> text, href |-> href]

Raised == [raised |-> TRUE, val |-> <<>>]
Returned(v) == [raised |-> FALSE, val |-> v]

\* The announcements of home_api: a['href'] raises on an anchor without href.
Announcements(html) ==
    IF ~html.marquee.some THEN Returned(<<>>)
    ELSE LET as == html.marquee.v
         IN  IF \E i \in 1..Len(as) : ~as[i].href.some THEN Raised
             ELSE Returned([i \in 1..Len(as) |->
                     [text |-> get_text(as[i].text), link |-> get_abs_url(as[i].href)]])

\* The stats of home_api: s.find_next('p') may be None, s['data-purecounter-end']
\* may be missing, and either raises.
Stats(html) ==
    LET cs == html.counters
    IN  IF \E i \in 1..Len(cs) : ~cs[i].label.some \/ ~cs[i].end.some THEN Raised
        ELSE Returned([i \in 1..Len(cs) |->
                [label |-> get_text(cs[i].label.v), value |-> cs[i].end.v]])

\* [get_abs_url(img['src']) for img in soup.find_all('img') if img.get('src')]
RECURSIVE Images(_)
Images(imgs) ==
    IF imgs = <<>> THEN <<>>
    ELSE (IF imgs[1].some /\ imgs[1].v # <<>> THEN <<get_abs_url(imgs[1])>> ELSE <<>>)
         \o Images(Tail(imgs))

Value(shape, id, items) == [shape |-> shape, id |-> id, items |-> items]

HomeData(html) ==
    LET a == Announcements(html)
        st == Stats(html)
    IN  IF a.raised \/ st.raised THEN Raised
        ELSE Returned(Value("home", <<>>,
                 <<[announcements |-> a.val, stats |-> st.val, images |-> Images(html.imgs)]>>))

\* The siblings after node i up to the next node whose tag is in stop.
RECURSIVE Siblings(_, _, _)
Siblings(nodes, i, stop) ==
    IF i > Len(nodes) \/ nodes[i].tag \in stop THEN <<>>
    ELSE <<nodes[i]>> \o Siblings(nodes, i + 1, stop)

RECURSIVE Texts(_, _)
Texts(nodes, tags) ==
    IF nodes = <<>> THEN <<>>
    ELSE (IF nodes[1].tag \in tags THEN <<get_text(nodes[1].text)>> ELSE <<>>)
         \o Texts(Tail(nodes), tags)

RECURSIVE Sections(_, _)
Sections(nodes, i) ==
    IF i > Len(nodes) THEN <<>>
    ELSE (IF nodes[i].tag \in {"h1", "h2", "h3"} /\ nodes[i].cls
          THEN <<[title   |-> get_text(nodes[i].text),
                  content |-> Texts(Siblings(nodes, i + 1, {"h1", "h2", "h3"}),
                                    {"p", "ul", "li"})]>>
          ELSE <<>>) \o Sections(nodes, i + 1)

\* The info cards: a card without a heading is passed over, and
\* card_div.find('img')['src'] raises on an img without src.
RECURSIVE Profiles(_)
Profiles(cards) ==
    IF cards = <<>> THEN Returned(<<>>)
    ELSE LET c == cards[1]
             rest == Profiles(Tail(cards))
         IN  IF ~c.name.some THEN rest
             ELSE IF CardRaises(c) THEN Raised
             ELSE IF rest.raised THEN Raised
             ELSE Returned(<<[name  |-> get_text(c.name.v),
                              photo |-> IF c.img.present THEN get_abs_url(c.img.src) ELSE None,
                              text  |-> c.ps]>> \o rest.val)

InstituteData(page, html) ==
    LET area == html.content
        secs == IF area.some /\ area.v.cls \in {"rgukt-content", "main-data"}
                THEN Sections(area.v.nodes, 1) ELSE <<>>
        cards == Profiles(html.cards)
    IN  IF cards.raised THEN Raised
        ELSE Returned(Value("institute", page, <<[sections |-> secs, profiles |-> cards.val]>>))

RECURSIVE SectionLinks(_)
SectionLinks(nodes) ==
    IF nodes = <<>> THEN <<>>
    ELSE (IF nodes[1].tag = "a"
          THEN <<[label |-> get_text(nodes[1].text), url |-> get_abs_url(nodes[1].href)]>>
          ELSE <<>>) \o SectionLinks(Tail(nodes))

RECURSIVE LinkGroups(_, _)
LinkGroups(nodes, i) ==
    IF i > Len(nodes) THEN <<>>
    ELSE (IF nodes[i].tag \in {"h1", "h3"}
          THEN <<[header |-> get_text(nodes[i].text),
                  links  |-> SectionLinks(Siblings(nodes, i + 1, {"h1", "h3"}))]>>
          ELSE <<>>) \o LinkGroups(nodes, i + 1)

\* curr['href'] raises on a sibling anchor without href that a header reaches.
AcademicData(html) ==
    LET area == html.content
    IN  IF ~(area.some /\ area.v.cls = "rgukt-content") THEN Returned(Value("academics", <<>>, <<>>))
        ELSE LET ns == area.v.nodes
                 reached(j) == \E i \in 1..(j - 1) :
                                  /\ ns[i].tag \in {"h1", "h3"}
                                  /\ \A k \in (i + 1)..j : ns[k].tag \notin {"h1", "h3"}
             IN  IF \E j \in 1..Len(ns) : ns[j].tag = "a" /\ ~ns[j].href.some /\ reached(j)
                 THEN Raised
                 ELSE Returned(Value("academics", <<>>, LinkGroups(ns, 1)))

NotificationData(html) == Returned(Value("notifications", <<>>, parse_generic_table(html.tables)))

(***************************************************************************)
(* parse_deep_faculty: the POST of one email to the profile endpoint.  The *)
(* reply is a transport failure, a status other than 200, or a page whose  *)
(* divs have an id and hold li items or text.                              *)
(***************************************************************************)
Title(w) ==
    CASE w = "research" -> "Research"
      [] w = "areas"    -> "Areas"
      [] w = "about"    -> "About"
      [] w = "_"        -> " "
      [] OTHER          -> w

\* div.get('id').replace('content-', '').replace('_', ' ').title()
RECURSIVE Label(_)
Label(id) ==
    IF id = <<>> THEN <<>>
    ELSE (IF id[1] = "content-" THEN <<>> ELSE <<Title(id[1])>>) \o Label(Tail(id))

\* details[key] = value
RECURSIVE DictSet(_, _, _)
DictSet(d, key, value) ==
    IF d = <<>> THEN <<[key |-> key, value |-> value]>>
    ELSE IF d[1].key = key THEN <<[key |-> key, value |-> value]>> \o Tail(d)
    ELSE <<d[1]>> \o DictSet(Tail(d), key, value)

RECURSIVE Details(_, _)
Details(divs, details) ==
    IF divs = <<>> THEN details
    ELSE LET div == divs[1]
         IN  IF div.id # <<>> /\ div.id[1] = "content-"
             THEN Details(Tail(divs),
                          DictSet(details, Label(div.id),
                                  IF div.lis # <<>>
                                  THEN [list |-> TRUE, items |-> [i \in 1..Len(div.lis) |-> get_text(div.lis[i])]]
                                  ELSE [list |-> FALSE, items |-> <<get_text(div.text)>>]))
             ELSE Details(Tail(divs), details)

DeepFetchFailed == <<[key |-> <<"error">>, value |-> [list |-> FALSE, items |-> <<<<"Deep fetch failed">>>>]]>>

\* The profile page the upstream serves for an email.
ProfilePage(email) ==
    << [id |-> <<"content-", "research", "_", "areas">>, lis |-> <<<<" ">> \o email.v, <<"x">>>>, text |-> <<"x">>],
       [id |-> <<"sidebar">>, lis |-> <<>>, text |-> <<"x">>],
       [id |-> <<"content-", "about">>, lis |-> <<>>, text |-> email.v \o <<" ">>] >>

BioReplies == {"error", "status", "page"}

\* parse_deep_faculty without its try/except: a transport failure propagates.
parse_deep_faculty_Propagates(email, reply) ==
    CASE reply = "error"  -> Raised
      [] reply = "status" -> Returned(<<>>)
      [] reply = "page"   -> Returned(Details(ProfilePage(email), <<>>))

\* The result of parse_deep_faculty(client, email) when the upstream answers
\* with reply: it returns a mapping and never raises.
parse_deep_faculty(email, reply) ==
    CASE reply = "error"  -> Returned(DeepFetchFailed)
      [] reply = "status" -> Returned(<<>>)
      [] reply = "page"   -> Returned(Details(ProfilePage(email), <<>>))

(***************************************************************************)
(* The pages the upstream site serves.                                     *)
(***************************************************************************)
InfoCard(name, img, ps) == [name |-> name, img |-> img, ps |-> ps]

EmailA == Some(<<"a@rgukt">>)
EmailB == Some(<<"b@rgukt">>)
EmailC == Some(<<"c@rgukt">>)

PageOne ==
    [marquee  |-> Some(<<Anchor(<<" ", "a">>, Some(<<"/", "x">>))>>),
     counters |-> <<[label |-> Some(<<"a">>), end |-> Some(<<"1">>)]>>,
     imgs     |-> <<Some(<<"x">>), None>>,
     content  |-> Some([cls |-> "rgukt-content",
                        nodes |-> <<Node("h1", TRUE, <<"a">>, None),
                                    Node("p", FALSE, <<"b", " ">>, None),
                                    Node("a", FALSE, <<"a">>, Some(<<"#">>))>>]),
     cards    |-> <<InfoCard(Some(<<"a">>), Img(Some(<<"/", "x">>)), <<<<"b">>>>)>>,
     tables   |-> << << <<[text |-> <<"a">>, anchors |-> <<>>]>>,
                        <<[text |-> <<"a">>, anchors |-> <<>>],
                          [text |-> <<" ", "b", " ">>,
                           anchors |-> <<Anchor(<<"b", " ">>, Some(<<"/", "x">>))>>]>> >> >>,
     forms    |-> <<Form(TRUE, EmailA, None),
                    Form(TRUE, EmailA, Card(Some(<<"a">>), NoImg)),
                    Form(TRUE, EmailB, Card(None, Img(Some(<<"/", "x">>))))>>]

PageTwo ==
    [marquee  |-> None,
     counters |-> <<>>,
     imgs     |-> <<>>,
     content  |-> Some([cls |-> "main-data",
                        nodes |-> <<Node("h2", TRUE, <<"b">>, None),
                                    Node("li", FALSE, <<"a">>, None)>>]),
     cards    |-> <<InfoCard(None, Img(None), <<>>)>>,
     tables   |-> <<>>,
     forms    |-> <<Form(TRUE, EmailC, Card(Some(<<"b">>), NoImg)),
                    Form(TRUE, EmailB, Card(Some(<<"a">>), NoImg)),
                    Form(FALSE, None, Card(Some(<<"b">>), NoImg)),
                    Form(TRUE, EmailA, Card(Some(<<"a">>), NoImg))>>]

\* A page on which every extractor but the table extractor raises.
PageBroken ==
    [marquee  |-> Some(<<Anchor(<<"a">>, None)>>),
     counters |-> <<[label |-> None, end |-> Some(<<"1">>)]>>,
     imgs     |-> <<>>,
     content  |-> Some([cls |-> "rgukt-content",
                        nodes |-> <<Node("h3", FALSE, <<"a">>, None),
                                    Node("a", FALSE, <<"a">>, None)>>]),
     cards    |-> <<InfoCard(Some(<<"a">>), Img(None), <<>>)>>,
     tables   |-> <<>>,
     forms    |-> <<Form(TRUE, EmailA, Card(Some(<<"b">>), Img(None)))>>]

\* What client.get brings back: a transport failure (a timeout, a refused
\* connection) or a page.
Replies == {"error", "one", "two", "broken"}

PageOf(reply) ==
    CASE reply = "one"    -> PageOne
      [] reply = "two"    -> PageTwo
      [] reply = "broken" -> PageBroken

(***************************************************************************)
(* The endpoints and their cache keys.                                     *)
(***************************************************************************)
\* The words page identifiers, department codes, type parameters and cache
\* keys are made of.  No word is a prefix of another.
Words == {"home", "acad_", "dept_", "_", "True", "False", "CSE",
          "news_updates", "tenders", "careers", "aboutrgukt", "foo"}

Ident(ep, a, deep) == [ep |-> ep, a |-> a, deep |-> deep]
NoIdent == Ident("", <<>>, FALSE)

\* str(deep)
BoolStr(b) == IF b THEN "True" ELSE "False"

\* The department key without the deep flag.
cache_key_NoDeep(ep, a, deep) ==
    CASE ep = "home"          -> <<"home">>
      [] ep = "institute"     -> a
      [] ep = "academics"     -> <<"acad_">> \o a
      [] ep = "departments"   -> <<"dept_">> \o a
      [] ep = "notifications" -> a

\* The key each handler looks up and stores under.
cache_key(ep, a, deep) ==
    CASE ep = "home"          -> <<"home">>
      [] ep = "institute"     -> a
      [] ep = "academics"     -> <<"acad_">> \o a
      [] ep = "departments"   -> <<"dept_">> \o a \o <<"_", BoolStr(deep)>>
      [] ep = "notifications" -> a

\* The enum the notifications route declares for its type parameter.
NotificationTypes == {<<"news_updates">>, <<"tenders">>, <<"careers">>}

InstitutePages == {<<"aboutrgukt">>, <<"home">>, <<"news_updates">>,
                   <<"dept_", "CSE", "_", "True">>}
AcademicPages == {<<"aboutrgukt">>}
DepartmentCodes == {<<"CSE">>}
TypeParams == {<<"news_updates">>, <<"foo">>}

\* The type parameter is annotated str: every string passes the framework's
\* validation.  The enum= keyword of Query only decorates the OpenAPI schema.
TypeAccepted(type) == type \in Seq(Words)

Calls ==
    {Ident("home", <<>>, FALSE)}
    \cup {Ident("institute", p, FALSE) : p \in InstitutePages}
    \cup {Ident("academics", p, FALSE) : p \in AcademicPages}
    \cup {Ident("departments", d, b) : d \in DepartmentCodes, b \in BOOLEAN}
    \cup {Ident("notifications", t, FALSE) : t \in TypeParams}

\* The extractor each handler runs on the page it fetched.
Extract(id, html) ==
    CASE id.ep = "home"          -> HomeData(html)
      [] id.ep = "institute"     -> InstituteData(id.a, html)
      [] id.ep = "academics"     -> AcademicData(html)
      [] id.ep = "notifications" -> NotificationData(html)
      [] id.ep = "departments"   ->
            LET st == ExtractStaff(html.forms)
            IN  IF st.raised THEN Raised ELSE Returned(Value("departments", id.a, st.staff))

(***************************************************************************)
(* cachetools.TTLCache(maxsize, ttl): the links in least-recently-used     *)
(* order, each with its key, its value and its expiry time.                *)
(***************************************************************************)
TTL == 3600
MaxSize == 2

Link(key, val, expires, by) == [key |-> key, val |-> val, expires |-> expires, by |-> by]

HasLink(c, key) == \E i \in 1..Len(c) : c[i].key = key
LinkOf(c, key) == c[CHOOSE i \in 1..Len(c) : c[i].key = key]

RECURSIVE Without(_, _)
Without(c, key) ==
    IF c = <<>> THEN <<>>
    ELSE (IF c[1].key = key THEN <<>> ELSE <<c[1]>>) \o Without(Tail(c), key)

\* key in cache: TTLCache.__contains__, which reads the timer
Contains(c, key, time) == HasLink(c, key) /\ time < LinkOf(c, key).expires

\* TTLCache.__getlink: move_to_end
Touch(c, key) == IF HasLink(c, key) THEN Append(Without(c, key), LinkOf(c, key)) ELSE c

\* TTLCache.expire(time)
RECURSIVE Expire(_, _)
Expire(c, time) ==
    IF c = <<>> THEN <<>>
    ELSE (IF time < c[1].expires THEN <<c[1]>> ELSE <<>>) \o Expire(Tail(c), time)

\* Cache.__setitem__'s loop over popitem for a new key
RECURSIVE MakeRoom(_)
MakeRoom(c) == IF Len(c) + 1 > MaxSize THEN MakeRoom(Tail(c)) ELSE c

\* cache[key] = val at the given time: TTLCache.__setitem__
SetItem(c, key, val, by, time) ==
    LET live == Expire(c, time)
        room == IF HasLink(live, key) THEN live ELSE MakeRoom(live)
    IN  Append(Without(room, key), Link(key, val, time + TTL, by))

(***************************************************************************)
(* The requests.  A handler runs from one await to the next without        *)
(* interruption (one event loop); the clock moves on regardless.           *)
(***************************************************************************)
MaxSlots == 2
MaxRequests == 3
MaxTicks == 2

Slots == 1..MaxSlots

FreeReq ==
    [id |-> NoIdent, key |-> <<>>, pc |-> "free", arrived |-> 0, prior |-> None,
     hit |-> FALSE, src |-> NoIdent, upstream |-> 0, err |-> "", reply |-> "",
     staff |-> <<>>, pending |-> {}, bios |-> <<>>, got |-> <<>>, reversed |-> TRUE,
     out |-> None]

Over(r) == req[r].pc = "free"

Init ==
    /\ now = 0
    /\ ticks = 0
    /\ cache = <<>>
    /\ req = [r \in Slots |-> FreeReq]
    /\ fin = FreeReq
    /\ nreq = 0
    /\ stored = {}
    /\ arg = <<>>
    /\ ret = NotCalled

\* The value last stored under key, if any.
LastStored(key) ==
    IF \E p \in stored : p.key = key
    THEN Some(CHOOSE p \in stored : p.key = key)
    ELSE None

\* The handler of request r has returned or raised: the response goes out
\* and the request is gone.
Finish(r, rec) ==
    /\ fin' = rec
    /\ req' = [req EXCEPT ![r] = FreeReq]

\* A handler up to its first await: the framework validates the parameters,
\* the handler tests `key in cache` and, on a hit, reads cache[key], dt
\* seconds later on the cache's clock; on a miss it issues client.get.
Request(id, dt) ==
    /\ nreq < MaxRequests
    /\ dt > 0 => ticks < MaxTicks
    /\ \E r \in Slots :
        /\ Over(r)
        /\ \A q \in Slots : Over(q) => r <= q
        /\ LET key == cache_key(id.ep, id.a, id.deep)
               new == [FreeReq EXCEPT !.id = id, !.key = key, !.arrived = now,
                                      !.prior = LastStored(key)]
           IN  IF id.ep = "notifications" /\ ~TypeAccepted(id.a)
               THEN /\ dt = 0
                    /\ Finish(r, [new EXCEPT !.pc = "rejected"])
                    /\ UNCHANGED cache
               ELSE IF Contains(cache, key, now)
               THEN /\ cache' = Touch(cache, key)
                    /\ Finish(r, IF now + dt < LinkOf(cache, key).expires
                                 THEN [new EXCEPT !.pc = "done", !.hit = TRUE,
                                                  !.src = LinkOf(cache, key).by,
                                                  !.out = Some(LinkOf(cache, key).val)]
                                 ELSE [new EXCEPT !.pc = "error", !.err = "KeyError"])
               ELSE /\ dt = 0
                    /\ req' = [req EXCEPT ![r] = [new EXCEPT !.pc = "get", !.upstream = 1]]
                    /\ UNCHANGED <<cache, fin>>
    /\ nreq' = nreq + 1
    /\ now' = now + dt
    /\ ticks' = IF dt > 0 THEN ticks + 1 ELSE ticks
    /\ UNCHANGED <<stored, arg, ret>>

\* A handler that swallows the exception and goes on with empty data.
PageResult_Swallow(id, reply) ==
    IF reply = "error" \/ Extract(id, PageOf(reply)).raised
    THEN Returned(Value("", <<>>, <<>>))
    ELSE Extract(id, PageOf(reply))

\* The outcome of every handler's extractor on every page, tabulated.
Extracted ==
    [id \in Calls, reply \in Replies \ {"error"} |-> Extract(id, PageOf(reply))]

\* What the handler has in hand after client.get and its extractor: an
\* exception (of the transport, or of the extractor) or the data.
PageResult(id, reply) ==
    IF reply = "error" THEN Raised ELSE Extracted[id, reply]

\* cache[key] = res; return res
Store(r, val) ==
    /\ cache' = SetItem(cache, req[r].key, val, req[r].id, now)
    /\ stored' = {p \in stored : p.key # req[r].key}
                 \cup {[key |-> req[r].key, val |-> val, at |-> now]}

\* The page arrives (or the fetch fails) and the handler runs on: to the
\* end, or to the await of asyncio.gather.
PageReply(r, reply) ==
    /\ req[r].pc = "get"
    /\ LET id == req[r].id
           res == PageResult(id, reply)
           back == [req[r] EXCEPT !.reply = reply]
       IN  IF res.raised
           THEN /\ Finish(r, [back EXCEPT !.pc = "error",
                                          !.err = IF reply = "error" THEN "transport"
                                                  ELSE "extract"])
                /\ UNCHANGED <<cache, stored>>
           ELSE IF id.ep = "departments" /\ id.deep /\ res.val.items # <<>>
           THEN /\ req' = [req EXCEPT ![r] =
                      [back EXCEPT !.pc = "gather",
                                  !.staff = res.val.items,
                                  !.pending = 1..Len(res.val.items),
                                  !.bios = [i \in 1..Len(res.val.items) |-> None],
                                  !.got = [i \in 1..Len(res.val.items) |-> None]]]
                /\ UNCHANGED <<cache, stored, fin>>
           ELSE /\ Finish(r, [back EXCEPT !.pc = "done", !.out = Some(res.val)])
                /\ Store(r, res.val)
    /\ UNCHANGED <<now, ticks, nreq, arg, ret>>

\* A gather that hands the results back in the order of completion.
GatherPut_CompletionOrder(bios, i, bio) ==
    LET k == CHOOSE j \in 1..Len(bios) : ~bios[j].some /\ \A m \in 1..(j - 1) : bios[m].some
    IN  [bios EXCEPT ![k] = Some(bio)]

\* asyncio.gather: the result of the i-th awaitable goes to the i-th place.
GatherPut(bios, i, bio) == [bios EXCEPT ![i] = Some(bio)]

\* One of the concurrent bio fetches completes.
BioReply(r, i, reply) ==
    /\ req[r].pc = "gather"
    /\ i \in req[r].pending
    /\ LET res == parse_deep_faculty(req[r].staff[i].email, reply)
       IN  IF res.raised
           THEN Finish(r, [req[r] EXCEPT !.pc = "error", !.err = "bio"])
           ELSE /\ req' = [req EXCEPT ![r] =
                      [@ EXCEPT !.pending = @ \ {i},
                                !.bios = GatherPut(@, i, res.val),
                                !.got = [@ EXCEPT ![i] = Some(<<reply>>)],
                                !.reversed = @ /\ \A j \in 1..Len(req[r].staff) :
                                                     j \in req[r].pending \/ i <= j]]
                /\ UNCHANGED fin
    /\ UNCHANGED <<now, ticks, cache, nreq, stored, arg, ret>>

\* for i, bio in enumerate(bios): staff[i]['bio'] = bio
Attach(staff, bios) ==
    [i \in 1..Len(bios) |->
        [name |-> staff[i].name, email |-> staff[i].email, photo |-> staff[i].photo,
         bio |-> bios[i].v]]

\* Every fetch has completed: gather returns and the handler runs to its end.
Gathered(r) ==
    /\ req[r].pc = "gather"
    /\ req[r].pending = {}
    /\ LET val == Value("departments", req[r].id.a, Attach(req[r].staff, req[r].bios))
       IN  /\ Finish(r, [req[r] EXCEPT !.pc = "done", !.out = Some(val)])
           /\ Store(r, val)
    /\ UNCHANGED <<now, ticks, nreq, arg, ret>>

\* The clock moves on: by a second, or by a second less than the ttl.
Tick(d) ==
    /\ ticks < MaxTicks
    /\ now' = now + d
    /\ ticks' = ticks + 1
    /\ UNCHANGED <<cache, req, fin, nreq, stored, arg, ret>>

\* The service with the clock at rest: every endpoint, pages with at most
\* one staff record.
ServiceReplies == {"error", "one"}

Next ==
    \/ \E id \in Calls : Request(id, 0)
    \/ \E r \in Slots, reply \in ServiceReplies : PageReply(r, reply)
    \/ \E r \in Slots, i \in 1..MaxForms, reply \in BioReplies : BioReply(r, i, reply)
    \/ \E r \in Slots : Gathered(r)

Spec == Init /\ [][Next]_vars

\* The department endpoint alone, one request at a time, on pages with up to
\* three staff records: the fan-out of a request and its completion orders.
DeepCalls == {Ident("departments", d, b) : d \in DepartmentCodes, b \in BOOLEAN}
DeepReplies == {"one", "two"}

NextDeep ==
    \/ \E id \in DeepCalls : (\A q \in Slots : Over(q)) /\ Request(id, 0)
    \/ \E r \in Slots, reply \in DeepReplies : PageReply(r, reply)
    \/ \E r \in Slots, i \in 1..MaxForms, reply \in BioReplies : BioReply(r, i, reply)
    \/ \E r \in Slots : Gathered(r)

SpecDeep == Init /\ [][NextDeep]_vars

\* Failing fetches and extractors: one call of each endpoint, and pages on
\* which the extractors raise.
FailCalls ==
    {Ident("home", <<>>, FALSE),
     Ident("institute", <<"aboutrgukt">>, FALSE),
     Ident("academics", <<"aboutrgukt">>, FALSE),
     Ident("departments", <<"CSE">>, TRUE),
     Ident("notifications", <<"news_updates">>, FALSE)}
FailReplies == {"error", "one", "broken"}

NextFail ==
    \/ \E id \in FailCalls : Request(id, 0)
    \/ \E r \in Slots, reply \in FailReplies : PageReply(r, reply)
    \/ \E r \in Slots, i \in 1..MaxForms, reply \in BioReplies : BioReply(r, i, reply)
    \/ \E r \in Slots : Gathered(r)

SpecFail == Init /\ [][NextFail]_vars

\* The cache over time: the endpoints without a fan-out, and the clock.
TtlCalls ==
    {Ident("home", <<>>, FALSE)}
    \cup {Ident("institute", p, FALSE) : p \in {<<"aboutrgukt">>, <<"home">>}}
TtlReplies == {"error", "one", "two"}

NextTtl ==
    \/ \E id \in TtlCalls, dt \in {0, 1} : Request(id, dt)
    \/ \E r \in Slots, reply \in TtlReplies : PageReply(r, reply)
    \/ \E d \in {1, TTL - 1} : Tick(d)

SpecTtl == Init /\ [][NextTtl]_vars

(***************************************************************************)
(* The claims about the service.                                           *)
(***************************************************************************)

\* The requests in view: those in flight and the one that finished last.
\* Every request is in view in the state it finishes in.
InView == {req[r] : r \in Slots} \cup {fin}

\* C1: a value served from the cache by an endpoint was stored by an earlier
\* request to that same endpoint with the same parameters.
C1_KeyedByEndpoint ==
    fin.hit => fin.src = fin.id

\* C2: a type parameter outside the enum of /api/notifications is rejected
\* before any upstream request is issued and without any cache entry written.
C2_InvalidTypeRejected ==
    /\ \A q \in InView :
          (q.id.ep = "notifications" /\ q.id.a \notin NotificationTypes) =>
              (q.pc = "rejected" /\ q.upstream = 0)
    /\ \A i \in 1..Len(cache) :
          ~(cache[i].by.ep = "notifications" /\ cache[i].by.a \notin NotificationTypes)

HasBio(rec) == "bio" \in DOMAIN rec

\* The last request was a department request that succeeded, and the list
\* it answered with came from a department request (its own, or a cached
\* one).
DeptAnswer ==
    /\ fin.pc = "done"
    /\ fin.id.ep = "departments"
    /\ fin.hit => fin.src.ep = "departments"

\* C4: after a deep=true request over staff records s[1..n], whatever the
\* order in which the n fetches completed, the record at every index i
\* carries the result of the fetch issued for s[i].email, and none is left
\* without a bio; the list returned is the list cached.
C4_PositionalBios ==
    (fin.pc = "done" /\ ~fin.hit /\ fin.id.deep /\ fin.staff # <<>>) =>
        LET fac == fin.out.v.items
        IN  /\ HasLink(cache, fin.key)
            /\ LinkOf(cache, fin.key).val = fin.out.v
            /\ Len(fac) = Len(fin.staff)
            /\ \A i \in 1..Len(fac) :
                  /\ fac[i].email = fin.staff[i].email
                  /\ fac[i].name = fin.staff[i].name
                  /\ HasBio(fac[i])
                  /\ fin.got[i].some
                  /\ fac[i].bio = parse_deep_faculty(fac[i].email, fin.got[i].v[1]).val

\* Three records whose fetches completed in reverse order.
C4_Witness ==
    /\ fin.pc = "done"
    /\ Len(fin.staff) = 3
    /\ fin.reversed
    /\ \A i \in 1..3 : fin.got[i].v[1] = "page"
    /\ HasLink(cache, fin.key)
    /\ LinkOf(cache, fin.key).val = fin.out.v

\* C5: when the bio fetch of one record fails, that record receives exactly
\* the mapping {"error": "Deep fetch failed"}, every other record receives
\* its own bio, no fetch is dropped and the request succeeds.
C5_FailureIsolation ==
    /\ fin.pc = "error" => fin.err # "bio"
    /\ \A r \in Slots :
          req[r].pc = "gather" =>
              \A i \in 1..Len(req[r].staff) : i \in req[r].pending \/ req[r].got[i].some
    /\ (fin.pc = "done" /\ ~fin.hit /\ fin.id.deep) =>
          \A i \in 1..Len(fin.staff) :
              LET bio == fin.out.v.items[i].bio
                  email == fin.staff[i].email
              IN  /\ fin.got[i].v[1] = "error" => bio = DeepFetchFailed
                  /\ fin.got[i].v[1] = "page" =>
                        (bio = Details(ProfilePage(email), <<>>) /\ bio # DeepFetchFailed)

\* The fetch of the second of three records failed and the request finished.
C5_Witness ==
    /\ fin.pc = "done"
    /\ Len(fin.staff) = 3
    /\ fin.got[1].v[1] = "page"
    /\ fin.got[2].v[1] = "error"
    /\ fin.got[3].v[1] = "page"
    /\ fin.out.v.items[2].bio = DeepFetchFailed

\* C6: a value stored under a key at time T is returned unchanged, with no
\* upstream request, to every request with that key arriving before T + ttl;
\* a request arriving at or after T + ttl finds the entry absent and fetches.
C6_TtlHonored ==
    \A q \in InView :
        q.pc # "free" =>
            LET p == q.prior
            IN  IF p.some /\ q.arrived < p.v.at + TTL
                THEN /\ q.pc = "done"
                     /\ q.hit
                     /\ q.upstream = 0
                     /\ q.out = Some(p.v.val)
                ELSE /\ ~q.hit
                     /\ q.upstream = 1

\* C7: for a department code d, the deep=true and deep=false requests never
\* share a cache entry: neither is served what the other stored, a deep=false
\* request returns no record with a bio and a deep=true request none without.
C7_DeepKeyIsolation ==
    /\ \A i \in 1..Len(cache) :
          cache[i].by.ep = "departments" =>
              cache[i].key # cache_key("departments", cache[i].by.a, ~cache[i].by.deep)
    /\ DeptAnswer =>
          /\ fin.hit => fin.src = fin.id
          /\ \A i \in 1..Len(fin.out.v.items) :
                HasBio(fin.out.v.items[i]) <=> fin.id.deep

\* A deep=false request has finished with its own fetch, bios absent, after
\* a deep=true request for the same department stored its list, bios
\* included.
C7_Witness ==
    /\ fin.pc = "done"
    /\ fin.id = Ident("departments", <<"CSE">>, FALSE)
    /\ ~fin.hit
    /\ fin.out.v.items # <<>>
    /\ \E p \in stored :
          /\ p.key = cache_key("departments", <<"CSE">>, TRUE)
          /\ p.val.items # <<>>
          /\ HasBio(p.val.items[1])

\* The page-level fetch of request q failed, or its extractor raised.
PageFailed(q) ==
    q.reply = "error" \/ (q.reply # "" /\ Extracted[q.id, q.reply].raised)

\* C10: a request whose page-level fetch fails or whose extraction raises
\* ends in a server error and leaves the cache as it was: no entry added,
\* overwritten or removed.
C10_FailureLeavesCache ==
    [][\A r \in Slots :
          /\ (req[r].pc = "get" /\ req'[r].pc = "gather") => ~PageFailed(req'[r])
          /\ (req[r].pc = "get" /\ req'[r].pc = "free" /\ PageFailed(fin')) =>
                (fin'.pc = "error" /\ cache' = cache)]_vars

\* An extractor raised while the cache held an entry.
C10_Witness ==
    /\ fin.pc = "error"
    /\ fin.err = "extract"
    /\ cache # <<>>

====
